---------------------------- MODULE Spec2Model ----------------------------
(***************************************************************************)
(* A model of librustc_mir/transform/promote_consts.rs: the analysis of    *)
(* the temporaries of a MIR body (collect_temps / TempCollector) and the   *)
(* promotion of constant rvalues into separate MIR bodies (Promoter,       *)
(* promote_candidates).                                                    *)
(*                                                                         *)
(* Indices are those of the source: blocks, statements and temporaries     *)
(* are numbered from 0.  A Rust Option is a sequence of length 0 or 1.     *)
(***************************************************************************)
EXTENDS Integers, Sequences, FiniteSets, TLC

\* Number of temporaries declared by the source body (mir.temp_decls.len()).
NTemps == 3
\* Longest candidate list handed to promote_candidates.
MaxCands == 2

TempIds == 0 .. (NTemps - 1)

(***************************************************************************)
(* MIR data.                                                               *)
(***************************************************************************)
\* Operands and lvalues: a constant, Lvalue::Temp(i), a projection with
\* base Lvalue::Temp(i), a non-temporary lvalue (Var), Lvalue::ReturnPointer,
\* and a constant of type ty with Literal::Promoted { index }.
Const == [k |-> "const", i |-> 0]
Temp(i) == [k |-> "temp", i |-> i]
Proj(i) == [k |-> "proj", i |-> i]
Var == [k |-> "var", i |-> 0]
ReturnPointer == [k |-> "return", i |-> 0]
Promoted(n, ty) == [k |-> "promoted", i |-> n, ty |-> ty]

\* Rvalues: Use(operand), Ref(lvalue), Len(lvalue), BinaryOp(lhs, rhs) and
\* Aggregate(Tuple, operands).
Rvalue(kind, ops) == [kind |-> kind, ops |-> ops]
Unit == Rvalue("Aggregate", <<>>)

\* StatementKind::Assign(dest, rvalue).
Assign(dest, rv) == [dest |-> dest, rv |-> rv]

\* Terminators.  destination is Option<(Lvalue, BasicBlock)>, cleanup (the
\* unwind edge of a Drop as well) is Option<BasicBlock>.
Return ==
    [kind |-> "Return", args |-> <<>>, destination |-> <<>>,
     cleanup |-> <<>>, value |-> <<>>, target |-> <<>>]
Goto(t) == [Return EXCEPT !.kind = "Goto", !.target = <<t>>]
Call(args, destination, cleanup) ==
    [Return EXCEPT !.kind = "Call", !.args = args,
                   !.destination = destination, !.cleanup = cleanup]
Drop(v, t, unwind) ==
    [Return EXCEPT !.kind = "Drop", !.value = <<v>>, !.target = <<t>>,
                   !.cleanup = unwind]

BasicBlockData(stmts, term, cleanup) ==
    [statements |-> stmts, terminator |-> term, is_cleanup |-> cleanup]

\* TempState.
Undefined == [st |-> "Undefined", block |-> 0, stmt |-> 0, uses |-> 0]
Defined(b, s, u) == [st |-> "Defined", block |-> b, stmt |-> s, uses |-> u]
Unpromotable == [st |-> "Unpromotable", block |-> 0, stmt |-> 0, uses |-> 0]
PromotedOut == [st |-> "PromotedOut", block |-> 0, stmt |-> 0, uses |-> 0]

\* A variant that only rejects a temp that was promoted out.
is_promotable_lax(t) == t.st # "PromotedOut"

is_promotable(t) == t.st = "Defined" /\ t.uses > 0

\* Candidate.
Ref(b, s) == [kind |-> "Ref", block |-> b, stmt |-> s]
ShuffleIndices(b) == [kind |-> "ShuffleIndices", block |-> b, stmt |-> 0]

(***************************************************************************)
(* Sequence helpers (0-based access as in the source).                     *)
(***************************************************************************)
At(s, i) == s[i + 1]
Last(s) == s[Len(s)]

RECURSIVE Flatten(_)
Flatten(ss) == IF ss = <<>> THEN <<>> ELSE Head(ss) \o Flatten(Tail(ss))

(***************************************************************************)
(* The MIR visitor: which lvalues a statement or terminator mentions, in   *)
(* the order super_statement / super_terminator_kind visit them, and with  *)
(* which LvalueContext.                                                    *)
(***************************************************************************)
\* super_lvalue: a projection visits its base with context Projection.
LvalueOccs(op, context) ==
    CASE op.k = "temp" -> << [temp |-> op.i, context |-> context] >>
      [] op.k = "proj" -> << [temp |-> op.i, context |-> "Projection"] >>
      [] OTHER -> <<>>

RvalueContext(rv) ==
    CASE rv.kind = "Ref" -> "Borrow"
      [] rv.kind = "Len" -> "Inspect"
      [] OTHER -> "Consume"

RvalueOccs(rv) ==
    Flatten([p \in 1 .. Len(rv.ops) |-> LvalueOccs(rv.ops[p], RvalueContext(rv))])

\* super_assign: the destination (Store), then the rvalue.
StatementOccs(stmt) == LvalueOccs(stmt.dest, "Store") \o RvalueOccs(stmt.rv)

\* super_terminator_kind: Call visits the arguments, then the destination
\* (context Call); Drop visits the dropped lvalue (context Drop).
TerminatorOccs(term) ==
    CASE term.kind = "Call" ->
            Flatten([p \in 1 .. Len(term.args) |-> LvalueOccs(term.args[p], "Consume")])
            \o (IF term.destination = <<>> THEN <<>>
                ELSE LvalueOccs(term.destination[1].lv, "Call"))
      [] term.kind = "Drop" -> LvalueOccs(term.value[1], "Drop")
      [] OTHER -> <<>>

\* Terminator::successors.
Successors(term) ==
    CASE term.kind = "Call" ->
            (IF term.destination = <<>> THEN <<>> ELSE << term.destination[1].target >>)
            \o term.cleanup
      [] term.kind = "Drop" -> term.target \o term.cleanup
      [] term.kind = "Goto" -> term.target
      [] OTHER -> <<>>

\* traversal::ReversePostorder from START_BLOCK: depth-first, successors
\* in order, each block once.
RECURSIVE PostorderVisit(_, _, _)
PostorderVisit(blocks, todo, acc) ==
    IF todo = <<>> THEN acc
    ELSE LET b == Head(todo) IN
         IF b \in acc.seen THEN PostorderVisit(blocks, Tail(todo), acc)
         ELSE LET below == PostorderVisit(blocks, Successors(At(blocks, b).terminator),
                                          [acc EXCEPT !.seen = @ \cup {b}])
              IN PostorderVisit(blocks, Tail(todo),
                                [below EXCEPT !.out = Append(@, b)])

Reverse(s) == [p \in 1 .. Len(s) |-> s[Len(s) + 1 - p]]

ReversePostorder(blocks) ==
    Reverse(PostorderVisit(blocks, <<0>>, [seen |-> {}, out |-> <<>>]).out)

(***************************************************************************)
(* TempCollector.                                                          *)
(***************************************************************************)
\* visit_basic_block_data / visit_statement / visit_terminator: the lvalue
\* occurrences of one block, each with the collector's location when it
\* is visited: statement_index counts the statements visited so far, so
\* the terminator is visited with statement_index = statements.len().
BlockOccs(blocks, bb) ==
    LET data == At(blocks, bb)
        At_(occs, idx) ==
            [p \in 1 .. Len(occs) |->
                [temp |-> occs[p].temp, context |-> occs[p].context,
                 block |-> bb, stmt |-> idx]]
    IN Flatten([p \in 1 .. Len(data.statements) |->
                    At_(StatementOccs(data.statements[p]), p - 1)])
       \o At_(TerminatorOccs(data.terminator), Len(data.statements))

\* collect_temps: the blocks in reverse postorder.
BodyOccs(blocks) ==
    LET rpo == ReversePostorder(blocks)
    IN Flatten([p \in 1 .. Len(rpo) |-> BlockOccs(blocks, rpo[p])])

\* A variant that does not ignore drops.
visit_lvalue_nodrop(table, occ) ==
    LET temp == table[occ.temp] IN
    IF temp = Undefined /\ occ.context \in {"Store", "Call"}
    THEN [table EXCEPT ![occ.temp] = Defined(occ.block, occ.stmt, 0)]
    ELSE IF temp.st = "Defined" /\ occ.context \in {"Borrow", "Consume", "Inspect"}
    THEN [table EXCEPT ![occ.temp].uses = @ + 1]
    ELSE [table EXCEPT ![occ.temp] = Unpromotable]

\* A variant in which a write redefines an Unpromotable temp.
visit_lvalue_restore(table, occ) ==
    LET temp == table[occ.temp] IN
    IF occ.context = "Drop" THEN table
    ELSE IF temp.st # "Defined" /\ occ.context \in {"Store", "Call"}
    THEN [table EXCEPT ![occ.temp] = Defined(occ.block, occ.stmt, 0)]
    ELSE IF temp.st = "Defined" /\ occ.context \in {"Borrow", "Consume", "Inspect"}
    THEN [table EXCEPT ![occ.temp].uses = @ + 1]
    ELSE [table EXCEPT ![occ.temp] = Unpromotable]

\* TempCollector::visit_lvalue on one occurrence of a temporary.
visit_lvalue(table, occ) ==
    LET temp == table[occ.temp] IN
    IF occ.context = "Drop" THEN table
    ELSE IF temp = Undefined /\ occ.context \in {"Store", "Call"}
    THEN [table EXCEPT ![occ.temp] = Defined(occ.block, occ.stmt, 0)]
    ELSE IF temp.st = "Defined" /\ occ.context \in {"Borrow", "Consume", "Inspect"}
    THEN [table EXCEPT ![occ.temp].uses = @ + 1]
    ELSE [table EXCEPT ![occ.temp] = Unpromotable]


(***************************************************************************)
(* The source bodies and candidate lists considered.                       *)
(*                                                                         *)
(* A body is laid out from a list of items: an assignment joins the        *)
(* current block, a call or a drop ends it and continues in the next       *)
(* block; the last block returns.  Temporary i is defined by item i, by    *)
(* an assignment or by a call, from constants and the temporaries before   *)
(* it (or from itself, or from the one after it: bodies the builder never  *)
(* produces, but which the pass does not reject); then come the borrow     *)
(* `var = &t`, and one more statement or terminator.  The last temporary   *)
(* may also be left without definition.                                    *)
(***************************************************************************)
StmtItem(s) == [t |-> "stmt", s |-> s, args |-> <<>>, dest |-> Var, cleanup |-> FALSE]
CallItem(args, dest, cleanup) ==
    [t |-> "call", s |-> Assign(Var, Unit), args |-> args, dest |-> dest, cleanup |-> cleanup]
DropItem(v) == [t |-> "drop", s |-> Assign(Var, Unit), args |-> <<v>>, dest |-> Var, cleanup |-> FALSE]

NumTermItems(items) == Cardinality({p \in 1 .. Len(items) : items[p].t # "stmt"})

RECURSIVE BuildBlocks(_, _, _, _)
BuildBlocks(items, cur, blocks, cleanupIdx) ==
    IF items = <<>> THEN Append(blocks, BasicBlockData(cur, Return, FALSE))
    ELSE LET h == Head(items)
             next == Len(blocks) + 1
         IN CASE h.t = "stmt" ->
                    BuildBlocks(Tail(items), Append(cur, h.s), blocks, cleanupIdx)
              [] h.t = "call" ->
                    BuildBlocks(Tail(items), <<>>,
                        Append(blocks, BasicBlockData(cur,
                            Call(h.args, << [lv |-> h.dest, target |-> next] >>,
                                 IF h.cleanup THEN << cleanupIdx >> ELSE <<>>),
                            FALSE)),
                        cleanupIdx)
              [] OTHER ->
                    BuildBlocks(Tail(items), <<>>,
                        Append(blocks, BasicBlockData(cur, Drop(h.args[1], next, <<>>), FALSE)),
                        cleanupIdx)

Build(items) ==
    LET n == NumTermItems(items) + 1
        body == BuildBlocks(items, <<>>, <<>>, n)
    IN IF \E p \in 1 .. Len(items) : items[p].cleanup
       THEN Append(body, BasicBlockData(<<>>, [Return EXCEPT !.kind = "Resume"], TRUE))
       ELSE body

\* The ways temporary i may be defined: by an assignment, or by a call.
DefShapes(i) ==
    IF i = 0 THEN {"leaf", "fwd"}
    ELSE IF i = 1 THEN {"leaf", "use", "ref", "bin", "self"}
    ELSE {"use", "ref", "pair", "none"}

CallShapes(i) ==
    IF i = 0 THEN {"leaf"}
    ELSE IF i = 1 THEN {"use", "bin"}
    ELSE {"pair"}

DefChoices(i) ==
    [how : {"assign"}, shape : DefShapes(i)] \cup [how : {"call"}, shape : CallShapes(i)]

DefItem(i, c, cleanup) ==
    LET prev == Temp(i - 1)
        ops == CASE c.shape = "leaf" -> << Const >>
                 [] c.shape = "use" -> << prev >>
                 [] c.shape = "ref" -> << prev >>
                 [] c.shape = "bin" -> << prev, prev >>
                 [] c.shape = "pair" -> << Temp(i - 2), prev >>
                 [] c.shape = "fwd" -> << Temp(i + 1) >>
                 [] OTHER -> << Temp(i), Const >>
        kind == CASE c.shape \in {"leaf", "use", "fwd"} -> "Use"
                  [] c.shape = "ref" -> "Ref"
                  [] OTHER -> "BinaryOp"
        args == CASE c.shape = "leaf" -> << Const, Const, Const >>
                  [] c.shape = "use" -> << Const, Const, prev >>
                  [] c.shape = "bin" -> << prev, Const, prev >>
                  [] OTHER -> << Temp(i - 2), Const, prev >>
    IN IF c.shape = "none" THEN StmtItem(Assign(Var, Unit))
       ELSE IF c.how = "assign" THEN StmtItem(Assign(Temp(i), Rvalue(kind, ops)))
       ELSE CallItem(args, Temp(i), cleanup)

\* The item after the borrow of temporary root: nothing, or a statement
\* or terminator that mentions that temporary or the one before it, or a
\* drop of the last temporary.
TailChoices(root) ==
    {[t |-> "none", i |-> 0], [t |-> "shuffle", i |-> NTemps]}
    \cup [t : {"use"}, i : {root - 1, root}]
    \cup [t : {"drop"}, i : {root - 1, root, NTemps - 1}]
    \cup [t : {"store", "shuffle", "field"}, i : {root}]

TailItems(c, cleanup) ==
    CASE c.t = "none" -> <<>>
      [] c.t = "use" -> << StmtItem(Assign(Var, Rvalue("Use", << Temp(c.i) >>))) >>
      [] c.t = "field" -> << StmtItem(Assign(Var, Rvalue("Use", << Proj(c.i) >>))) >>
      [] c.t = "store" -> << StmtItem(Assign(Temp(c.i), Rvalue("Use", << Const >>))) >>
      [] c.t = "drop" -> << DropItem(Temp(c.i)) >>
      [] OTHER -> << CallItem(<< Const, Const, IF c.i = NTemps THEN Const ELSE Temp(c.i) >>,
                              Var, cleanup) >>

BodyItems(defs, root, tail, cleanup) ==
    [i \in 1 .. NTemps |-> DefItem(i - 1, defs[i - 1], cleanup)]
    \o << StmtItem(Assign(Var, Rvalue("Ref", << Temp(root) >>))) >>
    \o TailItems(tail, cleanup)

\* The sites a candidate may name: an assignment of a borrow of a
\* temporary (Candidate::Ref), a call with a third argument and a
\* non-temporary destination (Candidate::ShuffleIndices); in the order
\* the qualifier finds them.
CandidateSites(blocks) ==
    Flatten([b \in 1 .. Len(blocks) |->
        Flatten([s \in 1 .. Len(blocks[b].statements) |->
            IF blocks[b].statements[s].rv.kind = "Ref"
               /\ blocks[b].statements[s].rv.ops[1].k = "temp"
            THEN << Ref(b - 1, s - 1) >> ELSE <<>>])
        \o (IF blocks[b].terminator.kind = "Call"
               /\ Len(blocks[b].terminator.args) >= 3
               /\ blocks[b].terminator.destination # <<>>
               /\ blocks[b].terminator.destination[1].lv.k = "var"
            THEN << ShuffleIndices(b - 1) >> ELSE <<>>)])

\* The candidate lists: at most MaxCands sites, in the order found or in
\* the opposite order.
CandidateLists(sites) ==
    LET picks == {S \in SUBSET (1 .. Len(sites)) : Cardinality(S) <= MaxCands}
        RECURSIVE Pick(_, _)
        Pick(S, p) == IF p > Len(sites) THEN <<>>
                      ELSE (IF p \in S THEN << sites[p] >> ELSE <<>>) \o Pick(S, p + 1)
    IN {Pick(S, 1) : S \in picks} \cup {Reverse(Pick(S, 1)) : S \in picks}

\* The declared type of temporary i.
TempTy(i) == IF i % 2 = 0 THEN "i32" ELSE "u8"

(***************************************************************************)
(* The Promoter.                                                           *)
(***************************************************************************)
\* Mir::lvalue_ty and Mir::operand_ty, as far as promote_candidates uses
\* them.
lvalue_ty(mir, lv) ==
    CASE lv.k = "temp" -> At(mir.temp_decls, lv.i)
      [] lv.k = "proj" -> "field_ty"
      [] OTHER -> "var_ty"

operand_ty(mir, op) ==
    CASE op.k = "const" -> "const_ty"
      [] op.k = "promoted" -> op.ty
      [] OTHER -> lvalue_ty(mir, op)

\* The promoted MIR of a Promoter that promote_candidates has just made:
\* no block, no temporary.  A temp_decl of a promoted MIR also records
\* (of) the source temporary it was made for, which the code does not
\* keep.
NewMir(ty) == [basic_blocks |-> <<>>, temp_decls |-> <<>>, return_ty |-> ty]
NoMir == NewMir("none")

\* A variant that pushes two blocks.
new_block_twice(mir) ==
    [mir EXCEPT !.basic_blocks =
        @ \o << BasicBlockData(<<>>, Return, FALSE), BasicBlockData(<<>>, Return, FALSE) >>]

\* Promoter::new_block.
new_block(mir) ==
    [mir EXCEPT !.basic_blocks = Append(@, BasicBlockData(<<>>, Return, FALSE))]

\* A variant that puts the statement at the head of the last block.
assign_first(mir, dest, rvalue) ==
    [mir EXCEPT !.basic_blocks[Len(mir.basic_blocks)].statements =
                    << Assign(dest, rvalue) >> \o @]

\* Promoter::assign: a statement pushed on the last block.
assign(mir, dest, rvalue) ==
    [mir EXCEPT !.basic_blocks[Len(mir.basic_blocks)].statements =
                    Append(@, Assign(dest, rvalue))]

\* What MutVisitor::visit_rvalue and visit_terminator_kind visit in the
\* node a Promoter holds, in order: the operands of an rvalue; the
\* arguments and then the destination of a call; the value of a drop.
TermSlots(term) ==
    CASE term.kind = "Call" ->
            term.args \o (IF term.destination = <<>> THEN <<>>
                          ELSE << term.destination[1].lv >>)
      [] term.kind = "Drop" -> term.value
      [] OTHER -> <<>>

Slots(frame) == IF frame.is_stmt THEN frame.node.ops ELSE TermSlots(frame.node)

\* A variant that drops the index promote_temp returns.
SetSlotNot(frame, p, op) == frame

\* `*index = self.promote_temp(*index)`: the operand at slot p becomes op.
SetSlot(frame, p, op) ==
    IF frame.is_stmt THEN [frame EXCEPT !.node.ops[p] = op]
    ELSE IF frame.node.kind = "Drop" THEN [frame EXCEPT !.node.value[1] = op]
    ELSE IF p <= Len(frame.node.args) THEN [frame EXCEPT !.node.args[p] = op]
    ELSE [frame EXCEPT !.node.destination[1].lv = op]

\* Promoter::visit_lvalue promotes Lvalue::Temp, and super_lvalue leads it
\* to the base of a projection.
NeedsPromote(op) == op.k \in {"temp", "proj"}

\* The next slot (1-based) of the frame's node that visit_lvalue promotes,
\* 0 when the visit of the node is over.
NextSlot(frame) ==
    LET ps == {p \in frame.pos .. Len(Slots(frame)) : NeedsPromote(Slots(frame)[p])}
    IN IF ps = {} THEN 0 ELSE CHOOSE p \in ps : \A q \in ps : p <= q

VARIABLES
    source,         \* the Mir being transformed
    candidates,     \* the candidate list handed to promote_candidates
    temps,          \* Vec<TempState>
    pc,             \* collect, candidates, promote, done, abort, overflow
    cursor,         \* collect_temps: occurrences visited so far
    next_cand,      \* promote_candidates: candidates not yet taken
    promoted,       \* Promoter::promoted
    keep_original,  \* Promoter::keep_original
    stack,          \* the activations of promote_candidate / promote_temp
    second,         \* whether this is a second run of promote_candidates
    analysed,       \* history: the table collect_temps returned
    run_source,     \* history: the source when this run began
    cand_source,    \* history: the source when this candidate was taken
    entered,        \* history: the promote_temp calls of this run
    calls,          \* history: promote_temp calls for this candidate
    log             \* history: what this run did with each candidate

vars == << source, candidates, temps, pc, cursor, next_cand, promoted,
           keep_original, stack, second, analysed, run_source, cand_source,
           entered, calls, log >>

hist == << analysed, run_source, cand_source, entered, calls, log >>

Init ==
    \E defs \in [TempIds -> UNION {DefChoices(i) : i \in TempIds}] :
    \E root \in {NTemps - 2, NTemps - 1}, cleanup \in BOOLEAN :
    \E tail \in TailChoices(root) :
        /\ \A i \in TempIds : defs[i] \in DefChoices(i)
        /\ cleanup => \E i \in TempIds : defs[i].how = "call"
        /\ LET blocks == Build(BodyItems(defs, root, tail, cleanup)) IN
            /\ source = [basic_blocks |-> blocks,
                         promoted |-> <<>>,
                         temp_decls |-> [i \in 1 .. NTemps |-> TempTy(i - 1)]]
            /\ candidates \in CandidateLists(CandidateSites(blocks))
        /\ temps = [i \in TempIds |-> Undefined]
        /\ pc = "collect"
        /\ cursor = 0
        /\ next_cand = 0
        /\ promoted = NoMir
        /\ keep_original = FALSE
        /\ stack = <<>>
        /\ second = FALSE
        /\ analysed = temps
        /\ run_source = source
        /\ cand_source = source
        /\ entered = {}
        /\ calls = 0
        /\ log = <<>>

(***************************************************************************)
(* collect_temps.                                                          *)
(***************************************************************************)
\* One occurrence visited by the collector.
CollectStep ==
    /\ pc = "collect"
    /\ cursor < Len(BodyOccs(source.basic_blocks))
    /\ temps' = visit_lvalue(temps, BodyOccs(source.basic_blocks)[cursor + 1])
    /\ cursor' = cursor + 1
    /\ UNCHANGED << source, candidates, pc, next_cand, promoted, keep_original,
                    stack, second, hist >>

\* collect_temps returns the table; promote_candidates is called with it.
CollectReturn ==
    /\ pc = "collect"
    /\ cursor = Len(BodyOccs(source.basic_blocks))
    /\ pc' = "candidates"
    /\ next_cand' = Len(candidates)
    /\ analysed' = temps
    /\ UNCHANGED << source, candidates, temps, cursor, promoted, keep_original,
                    stack, second, run_source, cand_source, entered, calls, log >>

(***************************************************************************)
(* promote_candidates: the loop over the candidates.                       *)
(***************************************************************************)
\* The candidate the loop takes next: the list is visited in reverse.
TakeCandidate(cands, n) == cands[n]

\* Whether the candidate's site can be read at all: statements[stmt_idx]
\* must exist (else the index panics), the terminator of a ShuffleIndices
\* block must be a call (else span_bug) with an args[2].
SiteOk(mir, cand) ==
    LET data == At(mir.basic_blocks, cand.block) IN
    IF cand.kind = "Ref" THEN cand.stmt < Len(data.statements)
    ELSE data.terminator.kind = "Call" /\ Len(data.terminator.args) >= 3

\* A variant without the guard.
AlreadyPromotedNever(mir, table, cand) == FALSE

\* The `continue` of the loop: a Ref whose destination is a promoted temp.
AlreadyPromoted(mir, table, cand) ==
    /\ cand.kind = "Ref"
    /\ LET dest == At(At(mir.basic_blocks, cand.block).statements, cand.stmt).dest
       IN dest.k = "temp" /\ table[dest.i] = PromotedOut

\* A variant that takes the type of what a Ref borrows.
CandidateTyOfOperand(mir, cand) ==
    LET data == At(mir.basic_blocks, cand.block) IN
    IF cand.kind = "Ref" THEN operand_ty(mir, At(data.statements, cand.stmt).rv.ops[1])
    ELSE operand_ty(mir, data.terminator.args[3])

\* The type the loop computes for the candidate.
CandidateTy(mir, cand) ==
    LET data == At(mir.basic_blocks, cand.block) IN
    IF cand.kind = "Ref" THEN lvalue_ty(mir, At(data.statements, cand.stmt).dest)
    ELSE operand_ty(mir, data.terminator.args[3])

\* A variant that takes the length after the push.
NewOperandNext(mir, ty) == Promoted(Len(mir.promoted) + 1, ty)

\* Promoter::promote_candidate, up to the visit of the rvalue: the
\* operand that replaces the root, ...
NewOperand(mir, ty) == Promoted(Len(mir.promoted), ty)

\* ... the rvalue taken out of the source, ...
RootRvalue(mir, cand) ==
    LET data == At(mir.basic_blocks, cand.block) IN
    IF cand.kind = "Ref" THEN At(data.statements, cand.stmt).rv
    ELSE Rvalue("Use", << data.terminator.args[3] >>)

\* ... and the source with the new operand in its place.
ReplaceRoot(mir, cand, new_operand) ==
    IF cand.kind = "Ref"
    THEN [mir EXCEPT !.basic_blocks[cand.block + 1].statements[cand.stmt + 1].rv =
                        Rvalue("Use", << new_operand >>)]
    ELSE [mir EXCEPT !.basic_blocks[cand.block + 1].terminator.args[3] = new_operand]

Frame(root, index, is_stmt, old_keep, node) ==
    [root |-> root, index |-> index, is_stmt |-> is_stmt,
     old_keep_original |-> old_keep, node |-> node, pos |-> 1]

\* One turn of the loop: the candidate is skipped, or a Promoter is made
\* for it and promote_candidate starts, or reading its site fails.
NextCandidate ==
    /\ pc = "candidates"
    /\ next_cand > 0
    /\ LET cand == TakeCandidate(candidates, next_cand) IN
       IF ~SiteOk(source, cand)
       THEN /\ pc' = "abort"
            /\ UNCHANGED << source, next_cand, promoted, keep_original, stack,
                            cand_source, calls, log >>
       ELSE IF AlreadyPromoted(source, temps, cand)
       THEN /\ next_cand' = next_cand - 1
            /\ log' = Append(log, [cand |-> next_cand, skipped |-> TRUE,
                                   index |-> 0, at |-> 0])
            /\ UNCHANGED << source, pc, promoted, keep_original, stack,
                            cand_source, calls >>
       ELSE LET ty == CandidateTy(source, cand)
                new_operand == NewOperand(source, ty)
            IN /\ promoted' = new_block(NewMir(ty))
               /\ keep_original' = FALSE
               /\ source' = ReplaceRoot(source, cand, new_operand)
               /\ stack' = << Frame(TRUE, 0, TRUE, FALSE, RootRvalue(source, cand)) >>
               /\ pc' = "promote"
               /\ cand_source' = source
               /\ calls' = 0
               /\ log' = Append(log, [cand |-> next_cand, skipped |-> FALSE,
                                      index |-> new_operand.i, at |-> 0])
               /\ UNCHANGED next_cand
    /\ UNCHANGED << candidates, temps, cursor, second, analysed, run_source, entered >>

(***************************************************************************)
(* Promoter::promote_temp.                                                 *)
(***************************************************************************)
\* Lines 193-210: the flag and the table after the match on temps[index].
KeepAfterMatch(keep, state) == keep \/ state.uses > 1

MarkPromotedOut(table, index, keep) ==
    IF keep THEN table ELSE [table EXCEPT ![index] = PromotedOut]

\* A variant that makes the block of a moved call jump to itself.
TakeDefinitionLoop(mir, state, keep) ==
    LET data == At(mir.basic_blocks, state.block)
        is_stmt == state.stmt < Len(data.statements)
        term == data.terminator
    IN IF is_stmt
       THEN [is_stmt |-> TRUE, bug |-> FALSE,
             node |-> At(data.statements, state.stmt).rv,
             source |-> IF keep THEN mir
                        ELSE [mir EXCEPT !.basic_blocks[state.block + 1]
                                            .statements[state.stmt + 1].rv = Unit]]
       ELSE IF keep
       THEN [is_stmt |-> FALSE, bug |-> FALSE, node |-> term, source |-> mir]
       ELSE IF term.kind = "Call" /\ term.destination # <<>>
       THEN [is_stmt |-> FALSE, bug |-> FALSE,
             node |-> [term EXCEPT !.cleanup = <<>>, !.destination = <<>>],
             source |-> [mir EXCEPT !.basic_blocks[state.block + 1].terminator =
                                        Goto(state.block)]]
       ELSE [is_stmt |-> FALSE, bug |-> TRUE, node |-> term, source |-> mir]

\* A variant that deletes a moved assignment from its block.
TakeDefinitionRemove(mir, state, keep) ==
    LET data == At(mir.basic_blocks, state.block)
        is_stmt == state.stmt < Len(data.statements)
        term == data.terminator
    IN IF is_stmt
       THEN [is_stmt |-> TRUE, bug |-> FALSE,
             node |-> At(data.statements, state.stmt).rv,
             source |-> IF keep THEN mir
                        ELSE [mir EXCEPT !.basic_blocks[state.block + 1].statements =
                                SubSeq(@, 1, state.stmt)
                                    \o SubSeq(@, state.stmt + 2, Len(@))]]
       ELSE IF keep
       THEN [is_stmt |-> FALSE, bug |-> FALSE, node |-> term, source |-> mir]
       ELSE IF term.kind = "Call" /\ term.destination # <<>>
       THEN [is_stmt |-> FALSE, bug |-> FALSE,
             node |-> [term EXCEPT !.cleanup = <<>>, !.destination = <<>>],
             source |-> [mir EXCEPT !.basic_blocks[state.block + 1].terminator =
                                        Goto(term.destination[1].target)]]
       ELSE [is_stmt |-> FALSE, bug |-> TRUE, node |-> term, source |-> mir]

\* Lines 212-252: the rvalue or call taken out of the source, or cloned.
\* bug is the span_bug of a terminator that is no call with a destination.
TakeDefinition(mir, state, keep) ==
    LET data == At(mir.basic_blocks, state.block)
        is_stmt == state.stmt < Len(data.statements)
        term == data.terminator
    IN IF is_stmt
       THEN [is_stmt |-> TRUE, bug |-> FALSE,
             node |-> At(data.statements, state.stmt).rv,
             source |-> IF keep THEN mir
                        ELSE [mir EXCEPT !.basic_blocks[state.block + 1]
                                            .statements[state.stmt + 1].rv = Unit]]
       ELSE IF keep
       THEN [is_stmt |-> FALSE, bug |-> FALSE, node |-> term, source |-> mir]
       ELSE IF term.kind = "Call" /\ term.destination # <<>>
       THEN [is_stmt |-> FALSE, bug |-> FALSE,
             node |-> [term EXCEPT !.cleanup = <<>>, !.destination = <<>>],
             source |-> [mir EXCEPT !.basic_blocks[state.block + 1].terminator =
                                        Goto(term.destination[1].target)]]
       ELSE [is_stmt |-> FALSE, bug |-> TRUE, node |-> term, source |-> mir]

\* The temporaries whose promote_temp is active.
OnStack == {stack[p].index : p \in {q \in 1 .. Len(stack) : ~stack[q].root}}

\* promote_temp is called for the next temporary of the node on top, and
\* runs up to the visit of what it took (line 252); or it ends in
\* span_bug.  A call for a temporary whose promote_temp is already active
\* and which is still promotable repeats that activation's steps without
\* end: the stack overflows.
PromoteTempEnter ==
    /\ pc = "promote"
    /\ NextSlot(Last(stack)) # 0
    /\ LET index == Slots(Last(stack))[NextSlot(Last(stack))].i
           state == temps[index]
           keep == KeepAfterMatch(keep_original, state)
           taken == TakeDefinition(source, state, keep)
       IN /\ calls' = calls + 1
          /\ entered' = entered \cup
                {[temp |-> index, cand |-> next_cand,
                  path |-> [p \in 1 .. Len(stack) - 1 |-> stack[p + 1].index]]}
          /\ IF ~is_promotable(state)
             THEN /\ pc' = "abort"
                  /\ UNCHANGED << source, temps, keep_original, stack >>
             ELSE IF index \in OnStack
             THEN /\ pc' = "overflow"
                  /\ UNCHANGED << source, temps, keep_original, stack >>
             ELSE /\ keep_original' = keep
                  /\ temps' = MarkPromotedOut(temps, index, keep)
                  /\ source' = taken.source
                  /\ pc' = IF taken.bug THEN "abort" ELSE "promote"
                  /\ stack' = IF taken.bug THEN stack
                              ELSE Append(stack, Frame(FALSE, index, taken.is_stmt,
                                                       keep_original, taken.node))
    /\ UNCHANGED << candidates, cursor, next_cand, promoted, second, analysed,
                    run_source, cand_source, log >>

\* Lines 261-283: the new temporary, and the rvalue or call injected into
\* the promoted MIR.  bug is the bug!() of a cloned terminator that is no
\* call.
\* A variant that takes the length after the declaration is pushed.
NewIndexAfterPush(mir) == Len(mir.temp_decls) + 1

\* Line 261: the index of the temporary promote_temp is about to declare.
NewIndex(mir) == Len(mir.temp_decls)

Inject(mir, src, frame) ==
    LET new_index == NewIndex(mir)
        decl == [ty |-> At(src.temp_decls, frame.index), of |-> frame.index]
        with_decl == [mir EXCEPT !.temp_decls = Append(@, decl)]
        last == Len(mir.basic_blocks)
        new_target == Len(mir.basic_blocks)
    IN IF frame.is_stmt
       THEN [bug |-> FALSE, new_index |-> new_index,
             mir |-> assign(with_decl, Temp(new_index), frame.node)]
       ELSE IF frame.node.kind = "Call"
       THEN [bug |-> FALSE, new_index |-> new_index,
             mir |-> [new_block(with_decl) EXCEPT !.basic_blocks[last].terminator =
                        [frame.node EXCEPT !.destination =
                            << [lv |-> Temp(new_index), target |-> new_target] >>]]]
       ELSE [bug |-> TRUE, new_index |-> new_index, mir |-> new_block(with_decl)]

\* A variant that leaves the flag as the callee set it.
RestoreKeepNot(frame, keep) == keep

\* Line 286.
RestoreKeep(frame, keep) == frame.old_keep_original

\* The visit of the node on top is over: promote_temp injects it, restores
\* the flag and returns the new index, which visit_lvalue writes into the
\* caller's node.
PromoteTempExit ==
    /\ pc = "promote"
    /\ NextSlot(Last(stack)) = 0
    /\ ~Last(stack).root
    /\ LET frame == Last(stack)
           injected == Inject(promoted, source, frame)
           caller == stack[Len(stack) - 1]
           p == NextSlot(caller)
       IN /\ promoted' = injected.mir
          /\ IF injected.bug
             THEN /\ pc' = "abort"
                  /\ UNCHANGED << keep_original, stack >>
             ELSE /\ pc' = "promote"
                  /\ keep_original' = RestoreKeep(frame, keep_original)
                  /\ stack' = Append(SubSeq(stack, 1, Len(stack) - 2),
                                [SetSlot(caller, p,
                                    [Slots(caller)[p] EXCEPT !.i = injected.new_index])
                                 EXCEPT !.pos = p + 1])
    /\ UNCHANGED << source, candidates, temps, cursor, next_cand, second, hist >>

\* A variant that puts the promoted MIR in front of the list.
PushPromotedFront(mir, body) == [mir EXCEPT !.promoted = << body >> \o @]

\* Line 319: self.source.promoted.push(self.promoted).
PushPromoted(mir, body) == [mir EXCEPT !.promoted = Append(@, body)]

\* Lines 317-319: the rvalue is assigned to the return pointer and the
\* promoted MIR is pushed on source.promoted.
PromoteCandidateFinish ==
    /\ pc = "promote"
    /\ NextSlot(Last(stack)) = 0
    /\ Last(stack).root
    /\ source' = PushPromoted(source, assign(promoted, ReturnPointer, Last(stack).node))
    /\ log' = [log EXCEPT ![Len(log)].at = Len(source.promoted)]
    /\ promoted' = NoMir
    /\ stack' = <<>>
    /\ next_cand' = next_cand - 1
    /\ pc' = "candidates"
    /\ UNCHANGED << candidates, temps, cursor, keep_original, second, analysed,
                    run_source, cand_source, entered, calls >>

(***************************************************************************)
(* promote_candidates: the sweep after the loop.                           *)
(***************************************************************************)
SeqFilter(s, Keep(_)) ==
    LET RECURSIVE F(_)
        F(t) == IF t = <<>> THEN <<>>
                ELSE (IF Keep(Head(t)) THEN << Head(t) >> ELSE <<>>) \o F(Tail(t))
    IN F(s)

\* A variant that leaves the drops of promoted temps in place.
SweepBlockNoDrop(block, table) ==
    LET promoted_(index) == table[index] = PromotedOut
        kept(statement) == ~(statement.dest.k = "temp" /\ promoted_(statement.dest.i))
    IN [block EXCEPT !.statements = SeqFilter(@, kept)]

\* A variant that leaves the assignments to promoted temps in place.
SweepBlockKeepAssign(block, table) ==
    LET promoted_(index) == table[index] = PromotedOut
        term == block.terminator
    IN [block EXCEPT
            !.terminator =
                IF term.kind = "Drop" /\ term.value[1].k = "temp"
                   /\ promoted_(term.value[1].i)
                THEN Goto(term.target[1]) ELSE term]

\* A variant that also reverses the statements it retains.
SweepBlockReversed(block, table) ==
    LET promoted_(index) == table[index] = PromotedOut
        kept(statement) == ~(statement.dest.k = "temp" /\ promoted_(statement.dest.i))
        term == block.terminator
    IN [block EXCEPT
            !.statements = Reverse(SeqFilter(@, kept)),
            !.terminator =
                IF term.kind = "Drop" /\ term.value[1].k = "temp"
                   /\ promoted_(term.value[1].i)
                THEN Goto(term.target[1]) ELSE term]

\* Lines 391-411 for one block.
SweepBlock(block, table) ==
    LET promoted_(index) == table[index] = PromotedOut
        kept(statement) == ~(statement.dest.k = "temp" /\ promoted_(statement.dest.i))
        term == block.terminator
    IN [block EXCEPT
            !.statements = SeqFilter(@, kept),
            !.terminator =
                IF term.kind = "Drop" /\ term.value[1].k = "temp"
                   /\ promoted_(term.value[1].i)
                THEN Goto(term.target[1]) ELSE term]

Sweep ==
    /\ pc = "candidates"
    /\ next_cand = 0
    /\ source' = [source EXCEPT !.basic_blocks =
                    [b \in 1 .. Len(@) |-> SweepBlock(@[b], temps)]]
    /\ pc' = "done"
    /\ UNCHANGED << candidates, temps, cursor, next_cand, promoted, keep_original,
                    stack, second, hist >>

\* promote_candidates is called again with the same candidates and the
\* table the first run left.
Rerun ==
    /\ pc = "done"
    /\ ~second
    /\ second' = TRUE
    /\ pc' = "candidates"
    /\ next_cand' = Len(candidates)
    /\ run_source' = source
    /\ cand_source' = source
    /\ entered' = {}
    /\ calls' = 0
    /\ log' = <<>>
    /\ UNCHANGED << source, candidates, temps, cursor, promoted, keep_original,
                    stack, analysed >>

Next ==
    \/ CollectStep
    \/ CollectReturn
    \/ NextCandidate
    \/ PromoteTempEnter
    \/ PromoteTempExit
    \/ PromoteCandidateFinish
    \/ Sweep
    \/ Rerun

Spec == Init /\ [][Next]_vars



(***************************************************************************)
(* Vocabulary of the properties.                                           *)
(***************************************************************************)
\* Every occurrence of a temporary in a body, unreachable blocks included.
AllOccs(blocks) == Flatten([b \in 1 .. Len(blocks) |-> BlockOccs(blocks, b - 1)])

OccursAs(blocks, t, contexts) ==
    \E p \in 1 .. Len(AllOccs(blocks)) :
        AllOccs(blocks)[p].temp = t /\ AllOccs(blocks)[p].context \in contexts

WritesTemp(blocks, t) == OccursAs(blocks, t, {"Store", "Call"})
ReadsTemp(blocks, t) == OccursAs(blocks, t, {"Borrow", "Consume", "Inspect", "Projection"})
DropsTemp(blocks, t) == OccursAs(blocks, t, {"Drop"})

\* The blocks of a body whose terminator drops temporary t.
DropBlocks(blocks, t) ==
    {b \in 1 .. Len(blocks) :
        blocks[b].terminator.kind = "Drop" /\ blocks[b].terminator.value[1] = Temp(t)}

FirstRunDone == pc = "done" /\ ~second

SingleUse(t) == analysed[t].st = "Defined" /\ analysed[t].uses = 1
MultiUse(t) == analysed[t].st = "Defined" /\ analysed[t].uses > 1

\* The temporary of a promote_temp call was reached from the root through
\* temporaries that are all read once.
ReachedBySingleUses(e) == \A p \in 1 .. Len(e.path) : SingleUse(e.path[p])

\* Nothing is left of temporary t in the source, and the drops of it that
\* the run began with are gotos to the same target.
Gone(t) ==
    /\ ~WritesTemp(source.basic_blocks, t)
    /\ ~ReadsTemp(source.basic_blocks, t)
    /\ ~DropsTemp(source.basic_blocks, t)
    /\ \A b \in DropBlocks(run_source.basic_blocks, t) :
            source.basic_blocks[b].terminator =
                Goto(run_source.basic_blocks[b].terminator.target[1])

(***************************************************************************)
(* C1 as stated: once promote_candidates has finished, nothing is left in  *)
(* the source of a temporary that is read once and whose read lies in the  *)
(* tree of a promoted candidate: no write, no read, no drop.               *)
(***************************************************************************)
C1_SingleUseGone ==
    FirstRunDone =>
        \A e \in entered : SingleUse(e.temp) => Gone(e.temp)

(***************************************************************************)
(* C1 amended: the same, for a temporary read once that is reached from    *)
(* the candidate's root through temporaries that are themselves read once  *)
(* (below a temporary with several uses the definition is duplicated and   *)
(* stays).                                                                 *)
(***************************************************************************)
C1_SingleUseMovedGone ==
    FirstRunDone =>
        \A e \in entered :
            SingleUse(e.temp) /\ ReachedBySingleUses(e) => Gone(e.temp)

\* A temporary read once, defined by a call and dropped, was moved out.
C1_Witness ==
    /\ FirstRunDone
    /\ \E e \in entered :
        /\ SingleUse(e.temp) /\ ReachedBySingleUses(e)
        /\ analysed[e.temp].stmt =
                Len(At(run_source.basic_blocks, analysed[e.temp].block).statements)
        /\ DropBlocks(run_source.basic_blocks, e.temp) # {}

(***************************************************************************)
(* A well-formed body: each temporary is written at most once, and no      *)
(* statement or call reads the temporary it writes.                        *)
(***************************************************************************)
CountOccs(occs, t, contexts) ==
    Cardinality({p \in 1 .. Len(occs) : occs[p].temp = t /\ occs[p].context \in contexts})

ReadContexts == {"Borrow", "Consume", "Inspect", "Projection"}

SelfReferential(blocks, t) ==
    \E b \in 1 .. Len(blocks) :
        \/ \E s \in 1 .. Len(blocks[b].statements) :
                /\ CountOccs(StatementOccs(blocks[b].statements[s]), t, {"Store"}) > 0
                /\ CountOccs(StatementOccs(blocks[b].statements[s]), t, ReadContexts) > 0
        \/ /\ CountOccs(TerminatorOccs(blocks[b].terminator), t, {"Call"}) > 0
           /\ CountOccs(TerminatorOccs(blocks[b].terminator), t, ReadContexts) > 0

WellFormed(blocks) ==
    \A t \in TempIds :
        /\ CountOccs(AllOccs(blocks), t, {"Store", "Call"}) <= 1
        /\ ~SelfReferential(blocks, t)

\* The statement or terminator at the location of a Defined entry.
DefinitionAt(blocks, state) ==
    LET data == At(blocks, state.block)
    IN IF state.stmt < Len(data.statements) THEN At(data.statements, state.stmt)
       ELSE data.terminator

DefinedByCall(blocks, state) ==
    state.stmt = Len(At(blocks, state.block).statements)

\* What the run did with the candidate taken last.
LastLog == log[Len(log)]

\* The promoted MIR holds a definition made for source temporary t: an
\* assignment of an rvalue of the same kind, or a call, as in the source.
HoldsCopyOf(mir, t) ==
    \E n \in 1 .. Len(mir.temp_decls) :
        /\ mir.temp_decls[n].of = t
        /\ LET def == DefinitionAt(run_source.basic_blocks, analysed[t]) IN
           \E b \in 1 .. Len(mir.basic_blocks) :
                IF DefinedByCall(run_source.basic_blocks, analysed[t])
                THEN /\ mir.basic_blocks[b].terminator.kind = "Call"
                     /\ mir.basic_blocks[b].terminator.destination # <<>>
                     /\ mir.basic_blocks[b].terminator.destination[1].lv = Temp(n - 1)
                     /\ Len(mir.basic_blocks[b].terminator.args) = Len(def.args)
                ELSE \E s \in 1 .. Len(mir.basic_blocks[b].statements) :
                        /\ mir.basic_blocks[b].statements[s].dest = Temp(n - 1)
                        /\ mir.basic_blocks[b].statements[s].rv.kind = def.rv.kind
                        /\ Len(mir.basic_blocks[b].statements[s].rv.ops) = Len(def.rv.ops)

\* The candidate whose tree holds the promote_temp call e is the one taken
\* last, and its promoted MIR has been pushed.
JustExtracted(e) ==
    /\ pc \in {"candidates", "done"}
    /\ log # <<>> /\ LastLog.cand = e.cand /\ ~LastLog.skipped

MultiUseKept(e) ==
    /\ pc # "overflow"
    /\ temps[e.temp] = analysed[e.temp]
    /\ (pc # "done" /\ log # <<>> /\ LastLog.cand = e.cand) =>
            DefinitionAt(source.basic_blocks, analysed[e.temp]) =
                DefinitionAt(cand_source.basic_blocks, analysed[e.temp])
    /\ JustExtracted(e) => HoldsCopyOf(At(source.promoted, LastLog.at), e.temp)
    /\ pc = "done" =>
            CountOccs(AllOccs(source.basic_blocks), e.temp, {"Store", "Call"}) =
                CountOccs(AllOccs(run_source.basic_blocks), e.temp, {"Store", "Call"})

(***************************************************************************)
(* C2 as stated: the extraction of a candidate that reads a temporary with *)
(* several uses leaves the temporary's definition (an assignment or a call *)
(* terminator) in the source as it was and its table entry Defined, puts a *)
(* copy of the definition into the promoted MIR, and the sweep deletes no  *)
(* statement that writes the temporary.                                    *)
(***************************************************************************)
C2_MultiUseKept ==
    (~second /\ WellFormed(run_source.basic_blocks)) =>
        \A e \in entered : MultiUse(e.temp) => MultiUseKept(e)

\* How many of the candidates taken before the p-th one were not skipped.
ExtractedBefore(p) == Cardinality({q \in 1 .. (p - 1) : ~log[q].skipped})

\* The root site of the candidate holds the promoted literal n, and the
\* rest of the statement or call is as it was when the candidate was taken.
RootSiteHolds(cand, n) ==
    LET now == At(source.basic_blocks, cand.block)
        was == At(cand_source.basic_blocks, cand.block)
    IN IF cand.kind = "Ref"
       THEN /\ Len(now.statements) = Len(was.statements)
            /\ At(now.statements, cand.stmt).dest = At(was.statements, cand.stmt).dest
            /\ At(now.statements, cand.stmt).rv.kind = "Use"
            /\ Len(At(now.statements, cand.stmt).rv.ops) = 1
            /\ At(now.statements, cand.stmt).rv.ops[1].k = "promoted"
            /\ At(now.statements, cand.stmt).rv.ops[1].i = n
       ELSE /\ now.terminator.kind = "Call"
            /\ Len(now.terminator.args) = Len(was.terminator.args)
            /\ now.terminator.args[3].k = "promoted"
            /\ now.terminator.args[3].i = n
            /\ \A a \in 1 .. Len(was.terminator.args) :
                    a # 3 => now.terminator.args[a] = was.terminator.args[a]
            /\ now.terminator.destination = was.terminator.destination
            /\ now.terminator.cleanup = was.terminator.cleanup

(***************************************************************************)
(* C3: the candidates are taken in reverse list order; the root site of a  *)
(* candidate that is not skipped is replaced by a promoted literal (the    *)
(* right-hand side of the assignment for Ref, the third argument of the    *)
(* call for ShuffleIndices, the rest unchanged) whose index is the         *)
(* position at which the candidate's promoted MIR is pushed, and that      *)
(* index is the initial length of the promoted list plus the number of     *)
(* candidates extracted before it.  The site is compared in a run whose    *)
(* table was collected from the body it runs on; in a run on the table and *)
(* body an earlier run left, the locations of the table are stale and the  *)
(* extraction may take the root statement itself.                          *)
(***************************************************************************)
C3_PromotedIndex ==
    \A p \in 1 .. Len(log) :
        /\ log[p].cand = Len(candidates) + 1 - p
        /\ ~log[p].skipped =>
            /\ log[p].index = Len(run_source.promoted) + ExtractedBefore(p)
            /\ (p < Len(log) \/ pc \in {"candidates", "done"}) => log[p].at = log[p].index
            /\ (p = Len(log) /\ pc \in {"promote", "candidates"} /\ ~second) =>
                    RootSiteHolds(candidates[log[p].cand], log[p].index)

C3_Witness ==
    /\ pc = "candidates"
    /\ Len(log) = 2
    /\ ~log[1].skipped /\ ~log[2].skipped
    /\ log[2].index = 1 /\ Len(source.promoted) = 2
    /\ candidates[1].kind = "Ref"
    /\ candidates[2].kind = "ShuffleIndices"

(***************************************************************************)
(* The dependency tree of an operand in a body: a temporary (or a field of *)
(* one) unfolds into the kind of its definition, the assignment or call    *)
(* that writes it, and the trees of that definition's operands.  name maps *)
(* a temporary of the body to the source temporary it stands for.          *)
(***************************************************************************)
TreeDepth == NTemps + 2

DefinitionsOf(blocks, t) ==
    UNION {{[kind |-> blocks[b].statements[s].rv.kind,
             ops |-> blocks[b].statements[s].rv.ops] :
                s \in {q \in 1 .. Len(blocks[b].statements) :
                            blocks[b].statements[q].dest = Temp(t)}} :
           b \in 1 .. Len(blocks)}
    \cup
    {[kind |-> "Call", ops |-> blocks[b].terminator.args] :
        b \in {c \in 1 .. Len(blocks) :
                /\ blocks[c].terminator.kind = "Call"
                /\ blocks[c].terminator.destination # <<>>
                /\ blocks[c].terminator.destination[1].lv = Temp(t)}}

RECURSIVE Tree(_, _, _, _)
Tree(blocks, name, op, fuel) ==
    IF op.k \notin {"temp", "proj"} THEN [leaf |-> op]
    ELSE IF fuel = 0 \/ op.i \notin DOMAIN name
            \/ Cardinality(DefinitionsOf(blocks, op.i)) # 1 THEN [leaf |-> [k |-> "none", i |-> 0]]
    ELSE LET def == CHOOSE d \in DefinitionsOf(blocks, op.i) : TRUE
         IN [of |-> name[op.i], field |-> op.k = "proj", kind |-> def.kind,
             kids |-> [p \in 1 .. Len(def.ops) |->
                        Tree(blocks, name, def.ops[p], fuel - 1)]]

\* A tree in which every temporary was unfolded into its one definition.
RECURSIVE Complete(_)
Complete(tree) ==
    IF "leaf" \in DOMAIN tree THEN tree.leaf.k # "none"
    ELSE \A p \in 1 .. Len(tree.kids) : Complete(tree.kids[p])

RvalueTree(blocks, name, rv) ==
    [kind |-> rv.kind,
     kids |-> [p \in 1 .. Len(rv.ops) |-> Tree(blocks, name, rv.ops[p], TreeDepth)]]

SourceNames == [t \in TempIds |-> t]

PromotedNames(mir) == [n \in 0 .. (Len(mir.temp_decls) - 1) |-> At(mir.temp_decls, n).of]

\* The rvalue assigned to the return pointer of a promoted MIR.
Returned(mir) ==
    UNION {{mir.basic_blocks[b].statements[s].rv :
                s \in {q \in 1 .. Len(mir.basic_blocks[b].statements) :
                            mir.basic_blocks[b].statements[q].dest = ReturnPointer}} :
           b \in 1 .. Len(mir.basic_blocks)}

\* The candidate taken last has been extracted (in the run that collected
\* the table).
LastExtracted ==
    /\ ~second
    /\ pc \in {"candidates", "done"}
    /\ log # <<>> /\ ~LastLog.skipped

(***************************************************************************)
(* C4: the promoted MIR built for a candidate assigns to its return        *)
(* pointer the root rvalue swapped out of the source, and unfolding its    *)
(* temporaries into their definitions, with each temporary named after the *)
(* source temporary it was made for, gives the dependency tree that the    *)
(* root rvalue had in the source when the candidate was taken.             *)
(***************************************************************************)
C4_SameTree ==
    LastExtracted =>
        LET mir == At(source.promoted, LastLog.at)
            cand == candidates[LastLog.cand]
        IN /\ Cardinality(Returned(mir)) = 1
           /\ \A rv \in Returned(mir) :
                /\ \A p \in 1 .. Len(rv.ops) :
                        Complete(Tree(mir.basic_blocks, PromotedNames(mir), rv.ops[p], TreeDepth))
                /\ RvalueTree(mir.basic_blocks, PromotedNames(mir), rv) =
                    RvalueTree(cand_source.basic_blocks, SourceNames,
                               RootRvalue(cand_source, cand))

C4_Witness ==
    /\ LastExtracted
    /\ Len(At(source.promoted, LastLog.at).temp_decls) >= 3
    /\ Len(At(source.promoted, LastLog.at).basic_blocks) >= 2
    /\ \E t \in TempIds : MultiUse(t) /\ \E e \in entered : e.temp = t /\ e.cand = LastLog.cand

\* The promoted MIRs: those pushed on the source and the one in the making.
PromotedMirs == {source.promoted[p] : p \in 1 .. Len(source.promoted)} \cup {promoted}

\* The calls already injected into a promoted MIR.
InjectedCalls ==
    UNION {{m.basic_blocks[b].terminator :
                b \in {c \in 1 .. Len(m.basic_blocks) :
                            m.basic_blocks[c].terminator.kind = "Call"}} :
           m \in PromotedMirs}

\* The calls that activations of promote_temp hold, taken or cloned from
\* the source, and inject on their return; the injection (lines 270-282)
\* changes the destination of the call and nothing else.
HeldCalls ==
    {stack[p].node : p \in {q \in 1 .. Len(stack) : ~stack[q].root /\ ~stack[q].is_stmt}}

TempsIn(ops) == {ops[p].i : p \in {q \in 1 .. Len(ops) : ops[q].k \in {"temp", "proj"}}}

\* The temporaries reachable from a set of temporaries through the
\* definitions of the body.
RECURSIVE ReachableFrom(_, _, _)
ReachableFrom(blocks, S, fuel) ==
    LET more == S \cup UNION {TempsIn(d.ops) : d \in UNION {DefinitionsOf(blocks, t) : t \in S}}
    IN IF fuel = 0 \/ more = S THEN S ELSE ReachableFrom(blocks, more, fuel - 1)

\* N: the distinct temporaries reachable from the root of the candidate
\* taken last, in the source as it was when the candidate was taken.
ReachableFromRoot ==
    ReachableFrom(cand_source.basic_blocks,
                  TempsIn(RootRvalue(cand_source, candidates[LastLog.cand]).ops), NTemps)

(***************************************************************************)
(* C6 as stated: on a well-formed source body promote_candidate            *)
(* terminates, and it calls promote_temp at most N times, N the number of  *)
(* distinct temporaries reachable from the candidate's root.               *)
(***************************************************************************)
C6_BoundedCalls ==
    (~second /\ WellFormed(run_source.basic_blocks)) =>
        /\ pc # "overflow"
        /\ (log # <<>> /\ ~LastLog.skipped) => calls <= Cardinality(ReachableFromRoot)

(***************************************************************************)
(* C7 as stated: a second run of promote_candidates, with the same         *)
(* candidates and the table the first run left, appends no promoted MIR    *)
(* and leaves the source as it found it.                                   *)
(***************************************************************************)
C7_SecondRunNoOp ==
    second => /\ source = run_source
              /\ pc \notin {"abort", "overflow"}

(***************************************************************************)
(* C7, amended: the second run never skips the first candidate it takes    *)
(* (the sweep of the first run left no assignment to a PromotedOut         *)
(* temporary for the guard to find), so a second run that gets through a   *)
(* non-empty candidate list has appended at least one promoted MIR.        *)
(***************************************************************************)
C7_SecondRunExtracts ==
    second =>
        /\ log # <<>> => ~log[1].skipped
        /\ (pc = "done" /\ candidates # <<>>) =>
                /\ Len(source.promoted) > Len(run_source.promoted)
                /\ source.basic_blocks # run_source.basic_blocks

C7_Witness ==
    /\ second
    /\ pc = "done"
    /\ Len(candidates) = 2
    /\ Len(source.promoted) > Len(run_source.promoted)
    /\ Len(run_source.promoted) > 0

\* A promoted MIR that mentions only its own temporaries and blocks.
SelfContained(mir) ==
    /\ \A p \in 1 .. Len(AllOccs(mir.basic_blocks)) :
            AllOccs(mir.basic_blocks)[p].temp < Len(mir.temp_decls)
    /\ \A b \in 1 .. Len(mir.basic_blocks) :
            LET succ == Successors(mir.basic_blocks[b].terminator)
            IN \A q \in 1 .. Len(succ) : succ[q] < Len(mir.basic_blocks)

(***************************************************************************)
(* C8: every promoted MIR pushed on the source's list mentions only        *)
(* temporaries of its own temp_decls, and the edges of its terminators     *)
(* (the target of a call's destination, and any other) lead to its own     *)
(* blocks.  Stated for the run that collected the table.                   *)
(***************************************************************************)
C8_SelfContained ==
    ~second => \A p \in 1 .. Len(source.promoted) : SelfContained(source.promoted[p])

C8_Witness ==
    /\ ~second
    /\ \E p \in 1 .. Len(source.promoted) :
        /\ Len(source.promoted[p].basic_blocks) >= 2
        /\ Len(source.promoted[p].temp_decls) >= 2
        /\ source.promoted[p].basic_blocks[1].terminator.kind = "Call"
    /\ \E b \in 1 .. Len(run_source.basic_blocks) :
            run_source.basic_blocks[b].terminator.cleanup # <<>>

\* The transitions of one table entry drawn as arrows in
\* Undefined -> Defined -> {Unpromotable | PromotedOut}; a Defined entry
\* also counts its uses.
AlongChain(old, new) ==
    \/ new = old
    \/ old.st = "Undefined" /\ new.st = "Defined"
    \/ /\ old.st = "Defined" /\ new.st = "Defined"
       /\ new.block = old.block /\ new.stmt = old.stmt /\ new.uses = old.uses + 1
    \/ old.st = "Defined" /\ new.st \in {"Unpromotable", "PromotedOut"}

(***************************************************************************)
(* C9 as stated: through collect_temps and promote_candidates every step   *)
(* of a table entry follows an arrow of                                    *)
(* Undefined -> Defined -> {Unpromotable | PromotedOut}.                   *)
(***************************************************************************)
C9_AlongChain ==
    [][\A t \in TempIds : AlongChain(temps[t], temps'[t])]_vars

(***************************************************************************)
(* C9, amended: every step of a table entry follows an arrow of that       *)
(* chain or goes from Undefined straight to Unpromotable (an occurrence    *)
(* that is no write, seen before any write); so an Unpromotable or         *)
(* PromotedOut entry never changes, no entry returns to Undefined, and     *)
(* none goes back to Defined.                                              *)
(***************************************************************************)
C9_Monotone ==
    [][\A t \in TempIds :
            \/ AlongChain(temps[t], temps'[t])
            \/ temps[t].st = "Undefined" /\ temps'[t].st = "Unpromotable"]_vars

C9_Witness ==
    /\ second /\ pc = "done"
    /\ \E t \in TempIds : temps[t] = PromotedOut /\ analysed[t].st = "Defined"
    /\ \E t \in TempIds : temps[t].st = "Defined" /\ temps[t].uses > 1
    /\ \E t \in TempIds : analysed[t] # temps[t] /\ analysed[t] # Undefined

\* The occurrences of temporary t in reverse postorder, drops removed.
OccsOf(blocks, t) ==
    SelectSeq(BodyOccs(blocks), LAMBDA occ : occ.temp = t /\ occ.context # "Drop")

\* The classification read off that sequence.
Classified(blocks, t) ==
    LET occs == OccsOf(blocks, t) IN
    IF occs = <<>> THEN Undefined
    ELSE IF /\ occs[1].context \in {"Store", "Call"}
            /\ \A p \in 2 .. Len(occs) : occs[p].context \in {"Borrow", "Consume", "Inspect"}
    THEN Defined(occs[1].block, occs[1].stmt, Len(occs) - 1)
    ELSE Unpromotable

\* The table the collector makes of a sequence of occurrences.
RECURSIVE Collected(_, _)
Collected(table, occs) ==
    IF occs = <<>> THEN table
    ELSE Collected(visit_lvalue(table, Head(occs)), Tail(occs))

\* The location of a Defined entry is where temporary t is written: an
\* assignment to it, or (statement index = number of statements) the call
\* whose destination it is.
WrittenAt(blocks, state, t) ==
    LET data == At(blocks, state.block) IN
    IF state.stmt < Len(data.statements)
    THEN At(data.statements, state.stmt).dest = Temp(t)
    ELSE /\ state.stmt = Len(data.statements)
         /\ data.terminator.kind = "Call"
         /\ data.terminator.destination # <<>>
         /\ data.terminator.destination[1].lv = Temp(t)

Collecting == pc = "collect"

(***************************************************************************)
(* C10: the table collect_temps returns gives each temporary the           *)
(* classification of its occurrences in reverse postorder without the      *)
(* drops: Undefined if there are none, Defined at the location of the      *)
(* first with uses = n if the first is a Store or Call write and the n     *)
(* others are Borrow, Consume or Inspect reads, Unpromotable otherwise;    *)
(* the Defined location is the writing statement, or the call terminator   *)
(* with statement index = the block's number of statements; and the table  *)
(* is the one collected from the occurrences with the drops left out.      *)
(***************************************************************************)
C10_Classification ==
    (~Collecting /\ ~second) =>
        /\ \A t \in TempIds :
            /\ analysed[t] = Classified(run_source.basic_blocks, t)
            /\ analysed[t].st = "Defined" =>
                    WrittenAt(run_source.basic_blocks, analysed[t], t)
        /\ analysed =
            Collected([t \in TempIds |-> Undefined],
                      SelectSeq(BodyOccs(run_source.basic_blocks),
                                LAMBDA occ : occ.context # "Drop"))

C10_Witness ==
    /\ ~Collecting /\ ~second
    /\ \E t \in TempIds : analysed[t] = Undefined /\ DropsTemp(run_source.basic_blocks, t)
    /\ \E t \in TempIds : /\ analysed[t].st = "Defined" /\ analysed[t].uses = 2
                          /\ DefinedByCall(run_source.basic_blocks, analysed[t])

\* promote_temp is about to be called: the temporary it is called for,
\* and that temporary's table entry.
AtPromoteTemp == pc = "promote" /\ NextSlot(Last(stack)) # 0

CalledFor == Slots(Last(stack))[NextSlot(Last(stack))].i

DefinedWithUses(state) == state.st = "Defined" /\ state.uses > 0

(***************************************************************************)
(* C11: promote_temp called for a temporary whose table entry is not       *)
(* Defined with uses > 0 ends in the abort (span_bug), with nothing put    *)
(* into the promoted MIR, nothing pushed on the source's promoted list and *)
(* the source and the table as they were; called for an entry that is      *)
(* Defined with uses > 0 it aborts only if the terminator at the entry's   *)
(* location is no call with a destination.  After an abort nothing         *)
(* happens any more.                                                       *)
(***************************************************************************)
C11_NotPromotableAborts ==
    [][/\ AtPromoteTemp =>
            IF DefinedWithUses(temps[CalledFor])
            THEN pc' = "abort" =>
                    TakeDefinition(source, temps[CalledFor],
                                   keep_original \/ temps[CalledFor].uses > 1).bug
            ELSE /\ pc' = "abort"
                 /\ promoted' = promoted
                 /\ source' = source
                 /\ temps' = temps
       /\ pc = "abort" => pc' = "abort" /\ source' = source]_vars

C11_Witness ==
    /\ pc = "abort"
    /\ stack # <<>>
    /\ NextSlot(Last(stack)) # 0
    /\ temps[Slots(Last(stack))[NextSlot(Last(stack))].i] = Unpromotable
    /\ Len(stack) >= 2

\* The loop is about to take a Ref candidate whose assignment writes a
\* temporary that is PromotedOut.
AtSubsumedRef ==
    /\ pc = "candidates" /\ next_cand > 0
    /\ LET cand == candidates[next_cand]
           stmts == At(source.basic_blocks, cand.block).statements
       IN /\ cand.kind = "Ref"
          /\ cand.stmt < Len(stmts)
          /\ At(stmts, cand.stmt).dest.k = "temp"
          /\ temps[At(stmts, cand.stmt).dest.i].st = "PromotedOut"

(***************************************************************************)
(* C12: a Ref candidate whose assignment destination is a PromotedOut      *)
(* temporary is skipped: the loop goes on to the next candidate with the   *)
(* source (its promoted list included) and the table unchanged.  Every     *)
(* candidate that is not skipped and whose promote_candidate returns has   *)
(* pushed exactly one promoted MIR: the list has grown by the number of    *)
(* candidates extracted so far.                                            *)
(***************************************************************************)
C12_SkipGuard ==
    /\ [][AtSubsumedRef =>
            /\ source' = source
            /\ temps' = temps
            /\ pc' = "candidates"
            /\ next_cand' = next_cand - 1
            /\ Len(log') = Len(log) + 1
            /\ log'[Len(log')].skipped]_vars
    /\ [](pc \in {"candidates", "done"} =>
            Len(source.promoted) =
                Len(run_source.promoted) + ExtractedBefore(Len(log) + 1))
    /\ [](pc = "promote" =>
            Len(source.promoted) + 1 =
                Len(run_source.promoted) + ExtractedBefore(Len(log) + 1))
    /\ [](\A p \in 1 .. Len(log) :
            log[p].skipped => candidates[log[p].cand].kind = "Ref")

C12_Witness ==
    /\ pc = "done" /\ ~second
    /\ Len(log) = 2
    /\ ~log[1].skipped /\ log[2].skipped
    /\ Len(source.promoted) = 1

\* The assignment writes a temporary that the table marks PromotedOut.
WritesPromotedOut(statement) ==
    statement.dest.k = "temp" /\ temps[statement.dest.i] = PromotedOut

\* The terminator drops a temporary that the table marks PromotedOut.
DropsPromotedOut(term) ==
    term.kind = "Drop" /\ term.value[1].k = "temp" /\ temps[term.value[1].i] = PromotedOut

\* after is before without the assignments to PromotedOut temporaries: the
\* k-th statement of after is the k-th retained statement of before.
Retained(before, after) ==
    LET keep == {i \in 1 .. Len(before) : ~WritesPromotedOut(before[i])}
    IN /\ Len(after) = Cardinality(keep)
       /\ \A i \in keep : after[Cardinality({j \in keep : j <= i})] = before[i]

(***************************************************************************)
(* C13: once promote_candidates has returned, no block of the source has   *)
(* an assignment to a PromotedOut temporary or a drop of one.  The sweep   *)
(* turns each drop of a PromotedOut temporary into a Goto to the drop's    *)
(* target, leaves every other terminator as it was, retains every other    *)
(* statement in its order, and changes nothing else of the source.         *)
(***************************************************************************)
C13_Sweep ==
    /\ [][pc = "candidates" /\ pc' = "done" =>
            /\ temps' = temps
            /\ Len(source'.basic_blocks) = Len(source.basic_blocks)
            /\ source' = [source EXCEPT !.basic_blocks = source'.basic_blocks]
            /\ \A b \in 1 .. Len(source.basic_blocks) :
                LET before == source.basic_blocks[b]
                    after == source'.basic_blocks[b]
                IN /\ Retained(before.statements, after.statements)
                   /\ after.terminator =
                        IF DropsPromotedOut(before.terminator)
                        THEN Goto(before.terminator.target[1])
                        ELSE before.terminator
                   /\ after = [before EXCEPT !.statements = after.statements,
                                             !.terminator = after.terminator]]_vars
    /\ [](pc = "done" =>
            \A b \in 1 .. Len(source.basic_blocks) :
                /\ ~DropsPromotedOut(source.basic_blocks[b].terminator)
                /\ \A s \in 1 .. Len(source.basic_blocks[b].statements) :
                        ~WritesPromotedOut(source.basic_blocks[b].statements[s]))

\* The first run has deleted an assignment from a block that retains two
\* different statements, and has turned a drop into a goto.
C13_Witness ==
    /\ FirstRunDone
    /\ \E b \in 1 .. Len(source.basic_blocks) :
        /\ Len(source.basic_blocks[b].statements)
                < Len(run_source.basic_blocks[b].statements)
        /\ Len(source.basic_blocks[b].statements) >= 2
        /\ source.basic_blocks[b].statements[1] # source.basic_blocks[b].statements[2]
    /\ \E b \in 1 .. Len(source.basic_blocks) :
        /\ run_source.basic_blocks[b].terminator.kind = "Drop"
        /\ source.basic_blocks[b].terminator.kind = "Goto"

\* The static type of a candidate in mir: the type of the destination of a
\* Ref's assignment, the type of the third argument of a ShuffleIndices
\* call.
StaticTy(mir, cand) ==
    LET data == At(mir.basic_blocks, cand.block) IN
    IF cand.kind = "Ref"
    THEN LET dest == At(data.statements, cand.stmt).dest
         IN IF dest.k = "temp" THEN At(mir.temp_decls, dest.i)
            ELSE lvalue_ty(mir, dest)
    ELSE LET arg == data.terminator.args[3]
         IN IF arg.k = "temp" THEN At(mir.temp_decls, arg.i)
            ELSE operand_ty(mir, arg)

(***************************************************************************)
(* C14: every temporary declared in a promoted MIR has the type the        *)
(* source declares for the temporary it was made for, and the return type  *)
(* of a promoted MIR is the static type of its candidate in the source as  *)
(* the loop found it: the type of the destination for a Ref, the type of   *)
(* the third argument of the call for a ShuffleIndices.                    *)
(***************************************************************************)
C14_Types ==
    /\ \A m \in PromotedMirs :
        \A n \in 1 .. Len(m.temp_decls) :
            m.temp_decls[n].ty = At(run_source.temp_decls, m.temp_decls[n].of)
    /\ source.temp_decls = run_source.temp_decls
    /\ pc = "promote" =>
            promoted.return_ty = StaticTy(cand_source, candidates[next_cand])
    /\ (pc \in {"candidates", "done"} /\ log # <<>> /\ ~LastLog.skipped) =>
            At(source.promoted, LastLog.at).return_ty =
                StaticTy(cand_source, candidates[LastLog.cand])

\* A Ref that borrows a temporary of another type than its destination has
\* been extracted, with a temporary whose type is not that of the source
\* temporary of the same index.
C14_Witness ==
    /\ LastExtracted
    /\ candidates[LastLog.cand].kind = "Ref"
    /\ LET m == At(source.promoted, LastLog.at)
           root == At(At(cand_source.basic_blocks, candidates[LastLog.cand].block)
                        .statements, candidates[LastLog.cand].stmt)
       IN /\ m.temp_decls # <<>>
          /\ root.rv.ops[1].k = "temp"
          /\ m.return_ty # At(run_source.temp_decls, root.rv.ops[1].i)
          /\ \E n \in 1 .. Len(m.temp_decls) :
                m.temp_decls[n].ty # At(run_source.temp_decls, n - 1)

\* Some active promote_temp is for a temporary that was read more than once.
BeneathMultiUse ==
    \E p \in 1 .. Len(stack) : ~stack[p].root /\ analysed[stack[p].index].uses > 1

(***************************************************************************)
(* C15: while a candidate is extracted, keep_original is set exactly when  *)
(* a promote_temp for a temporary with several uses is active, so each     *)
(* promote_temp that returns leaves the flag as it found it.  A call for a *)
(* temporary with one use made with the flag clear marks that temporary    *)
(* PromotedOut, also when a sibling with several uses was handled before   *)
(* it; a call for a promotable temporary made with the flag set, or for    *)
(* one with several uses, takes the definition by copy: the table and the  *)
(* source are left as they were.                                           *)
(***************************************************************************)
C15_KeepOriginalScope ==
    /\ [](pc = "promote" => (keep_original <=> BeneathMultiUse))
    /\ [][(AtPromoteTemp /\ is_promotable(temps[CalledFor])) =>
            IF keep_original \/ temps[CalledFor].uses > 1
            THEN /\ temps' = temps
                 /\ source' = source
                 /\ pc' = "promote" => keep_original'
            ELSE /\ temps' = [temps EXCEPT ![CalledFor] = PromotedOut]
                 /\ pc' = "promote" => ~keep_original']_vars
    /\ [][(pc = "promote" /\ pc' = "promote" /\ Len(stack') < Len(stack)) =>
            /\ keep_original' = Last(stack).old_keep_original
            /\ temps' = temps]_vars

\* The node of an active promote_temp or of the root read a temporary with
\* several uses and then one with a single use: the first is still Defined
\* and the second has been moved, after the flag was set and cleared again.
C15_Witness ==
    /\ ~second
    /\ pc = "promote"
    /\ ~keep_original
    /\ \E e1 \in entered, e2 \in entered :
        /\ e1.cand = e2.cand /\ e1.path = e2.path
        /\ MultiUse(e1.temp) /\ SingleUse(e2.temp)
        /\ ReachedBySingleUses(e2)
        /\ temps[e1.temp] = analysed[e1.temp]
        /\ temps[e2.temp] = PromotedOut
        /\ stack # <<>> /\ Last(stack).index = e2.temp /\ ~Last(stack).root

\* s is an initial part of t.
IsPrefix(s, t) == Len(s) <= Len(t) /\ SubSeq(t, 1, Len(s)) = s

(***************************************************************************)
(* C16: no step changes a promoted MIR that is on the source's promoted    *)
(* list, or its place: each step leaves the list as it is or appends one   *)
(* MIR to it, so Promoted(n) denotes the same MIR from the moment it is    *)
(* pushed.  This covers the later candidates, the sweep and a second run.  *)
(***************************************************************************)
C16_PromotedListGrows ==
    [][/\ IsPrefix(source.promoted, source'.promoted)
       /\ Len(source'.promoted) <= Len(source.promoted) + 1]_vars

\* Two different promoted MIRs were pushed and the sweep has run.
C16_Witness ==
    /\ FirstRunDone
    /\ Len(source.promoted) = 2
    /\ source.promoted[1] # source.promoted[2]
    /\ source.basic_blocks # run_source.basic_blocks

\* The blocks after have the blocks, statement slots and destinations of
\* the blocks before: a statement differs from the one before in its rvalue
\* at most.
SameSlots(before, after) ==
    /\ Len(after) = Len(before)
    /\ \A b \in 1 .. Len(before) :
        /\ Len(after[b].statements) = Len(before[b].statements)
        /\ after[b].is_cleanup = before[b].is_cleanup
        /\ \A s \in 1 .. Len(before[b].statements) :
                after[b].statements[s].dest = before[b].statements[s].dest

\* The location of the Defined entry of temporary t addresses a write of t.
AddressesWrite(blocks, t) ==
    LET def == DefinitionAt(blocks, temps[t])
    IN IF DefinedByCall(blocks, temps[t])
       THEN def.kind = "Call" /\ def.destination # <<>> /\ def.destination[1].lv = Temp(t)
       ELSE def.dest = Temp(t)

\* The location of a candidate addresses what it addressed when the run
\* began, or that assignment with its rvalue moved out.
AddressesSite(cand) ==
    LET now == At(source.basic_blocks, cand.block)
        was == At(run_source.basic_blocks, cand.block)
    IN IF cand.kind = "Ref"
       THEN /\ cand.stmt < Len(now.statements)
            /\ At(now.statements, cand.stmt).dest = At(was.statements, cand.stmt).dest
            /\ \/ At(now.statements, cand.stmt).rv = At(was.statements, cand.stmt).rv
               \/ /\ At(now.statements, cand.stmt).rv = Unit
                  /\ At(now.statements, cand.stmt).dest.k = "temp"
                  /\ temps[At(now.statements, cand.stmt).dest.i] = PromotedOut
       ELSE now.terminator = was.terminator

\* The location of the entry addresses the terminator of its block: its
\* statement index is not below the number of statements (line 213).
AddressesTerminator(blocks, state) ==
    state.stmt >= Len(At(blocks, state.block).statements)

(***************************************************************************)
(* C17: up to the sweep no step adds or removes a block of the source or   *)
(* a statement of a block; a step that changes a statement changes its     *)
(* rvalue only, to the empty tuple when an assignment is moved.  So in the *)
(* run that follows the analysis the location of every Defined entry still *)
(* addresses the write of its temporary, and the location of every         *)
(* candidate not yet taken addresses the site it addressed after analysis. *)
(***************************************************************************)
C17_SlotsStable ==
    /\ [][(pc \in {"candidates", "promote"} /\ pc' # "done") =>
            /\ SameSlots(source.basic_blocks, source'.basic_blocks)
            /\ (AtPromoteTemp /\ source' # source
                    /\ ~AddressesTerminator(source.basic_blocks, temps[CalledFor])) =>
                  /\ DefinitionAt(source'.basic_blocks, temps[CalledFor]).rv = Unit
                  /\ \A b \in 1 .. Len(source.basic_blocks) :
                        source'.basic_blocks[b].terminator =
                            source.basic_blocks[b].terminator]_vars
    /\ []((~second /\ pc \in {"candidates", "promote"}) =>
            /\ SameSlots(run_source.basic_blocks, source.basic_blocks)
            /\ \A t \in TempIds :
                    temps[t].st = "Defined" => AddressesWrite(source.basic_blocks, t)
            /\ \A n \in 1 .. next_cand :
                    (pc = "candidates" \/ n < next_cand) => AddressesSite(candidates[n]))

\* An assignment has been moved out of the source while a candidate is
\* still to be taken and a Defined entry is left.
C17_Witness ==
    /\ ~second
    /\ pc = "candidates" /\ next_cand = 1
    /\ \E t \in TempIds : temps[t].st = "Defined"
    /\ \E b \in 1 .. Len(source.basic_blocks) :
        \E s \in 1 .. Len(source.basic_blocks[b].statements) :
            /\ source.basic_blocks[b].statements[s].rv = Unit
            /\ run_source.basic_blocks[b].statements[s].rv # Unit

\* What a body does, in the order it is executed from block 0 on along
\* ascending block indices: every statement and every call, with the
\* temporaries it reads and the lvalue it writes.
BlockEvents(data) ==
    [s \in 1 .. Len(data.statements) |->
        [reads |-> TempsIn(data.statements[s].rv.ops),
         writes |-> data.statements[s].dest]]
    \o (IF data.terminator.kind = "Call" /\ data.terminator.destination # <<>>
        THEN << [reads |-> TempsIn(data.terminator.args),
                 writes |-> data.terminator.destination[1].lv] >>
        ELSE <<>>)

Events(mir) == Flatten([b \in 1 .. Len(mir.basic_blocks) |-> BlockEvents(mir.basic_blocks[b])])

\* Each temporary the body declares is written once, before it is read; no
\* other temporary is mentioned; the last thing done is the one assignment
\* to the return pointer.
WriteOnceInOrder(mir) ==
    LET ev == Events(mir)
        declared == 0 .. (Len(mir.temp_decls) - 1)
    IN /\ \A n \in declared :
            /\ Cardinality({k \in 1 .. Len(ev) : ev[k].writes = Temp(n)}) = 1
            /\ \A k \in 1 .. Len(ev) :
                    n \in ev[k].reads =>
                        \E j \in 1 .. (k - 1) : ev[j].writes = Temp(n)
       /\ \A k \in 1 .. Len(ev) :
            /\ ev[k].reads \subseteq declared
            /\ ev[k].writes.k \in {"temp", "return"}
            /\ ev[k].writes.k = "temp" => ev[k].writes.i \in declared
       /\ ev # <<>>
       /\ ev[Len(ev)].writes = ReturnPointer
       /\ Cardinality({k \in 1 .. Len(ev) : ev[k].writes = ReturnPointer}) = 1
       /\ Last(mir.basic_blocks).statements # <<>>
       /\ Last(Last(mir.basic_blocks).statements).dest = ReturnPointer
       /\ Last(mir.basic_blocks).terminator = Return

(***************************************************************************)
(* C18: in every promoted MIR on the source's list each temporary is       *)
(* written exactly once, and before every statement or call that reads it  *)
(* in the order of execution; the assignment to the return pointer is the  *)
(* last statement executed.                                                *)
(***************************************************************************)
C18_WriteBeforeRead ==
    \A p \in 1 .. Len(source.promoted) : WriteOnceInOrder(source.promoted[p])

\* A promoted MIR with a temporary that is read by the definition of
\* another, one of them written by a call.
C18_Witness ==
    /\ LastExtracted
    /\ LET mir == At(source.promoted, LastLog.at)
       IN /\ Len(mir.temp_decls) >= 2
          /\ Len(mir.basic_blocks) >= 2
          /\ \E k \in 1 .. Len(Events(mir)) :
                Events(mir)[k].writes.k = "temp" /\ Events(mir)[k].reads # {}

\* The blocks of the body form one chain from block 0: every block but the
\* last ends in a call that returns to the next block, the last in Return.
LinearChain(mir) ==
    LET n == Len(mir.basic_blocks) IN
    /\ n >= 1
    /\ \A b \in 1 .. (n - 1) :
        /\ mir.basic_blocks[b].terminator.kind = "Call"
        /\ mir.basic_blocks[b].terminator.destination # <<>>
        /\ mir.basic_blocks[b].terminator.destination[1].target = b
    /\ mir.basic_blocks[n].terminator = Return
    /\ \A b \in 1 .. n : ~mir.basic_blocks[b].is_cleanup

\* The temporaries of the body that were made for a source temporary
\* defined by a call.
CallDefined(mir) ==
    {n \in 1 .. Len(mir.temp_decls) :
        DefinedByCall(run_source.basic_blocks, analysed[mir.temp_decls[n].of])}

\* The temporaries of the body that a call of the body writes.
CallWritten(mir) ==
    {n \in 1 .. Len(mir.temp_decls) :
        \E b \in 1 .. Len(mir.basic_blocks) :
            /\ mir.basic_blocks[b].terminator.kind = "Call"
            /\ mir.basic_blocks[b].terminator.destination # <<>>
            /\ mir.basic_blocks[b].terminator.destination[1].lv = Temp(n - 1)}

(***************************************************************************)
(* C19: every promoted MIR on the source's list is a linear chain of       *)
(* blocks from block 0: each block but the last ends in a Call whose       *)
(* destination target is the next block, the last ends in Return, and      *)
(* there is one block more than temporaries written by a call, which in    *)
(* the run that follows the analysis are the temporaries made for source   *)
(* temporaries defined by a call.                                          *)
(***************************************************************************)
C19_LinearChain ==
    \A p \in 1 .. Len(source.promoted) :
        LET mir == source.promoted[p] IN
        /\ LinearChain(mir)
        /\ Len(mir.basic_blocks) = 1 + Cardinality(CallWritten(mir))
        /\ ~second => CallWritten(mir) = CallDefined(mir)

\* A promoted MIR of three blocks and three temporaries: two written by
\* calls, one by an assignment.
C19_Witness ==
    /\ LastExtracted
    /\ LET mir == At(source.promoted, LastLog.at)
       IN /\ Len(mir.basic_blocks) = 3
          /\ Len(mir.temp_decls) = 3

\* The terminators of the blocks, in block order.
Terminators(blocks) == [b \in 1 .. Len(blocks) |-> blocks[b].terminator]

\* The statements of the blocks, in block order.
Statements(blocks) == [b \in 1 .. Len(blocks) |-> blocks[b].statements]

(***************************************************************************)
(* C20: a promote_temp that moves a temporary defined by a call terminator *)
(* turns that terminator into a Goto to the target of the call's           *)
(* destination and changes no other terminator and no statement; one that  *)
(* takes the definition by copy leaves the source as it is; one that moves *)
(* a temporary defined by an assignment changes no terminator.             *)
(***************************************************************************)
C20_MovedCallGoto ==
    [][(AtPromoteTemp /\ is_promotable(temps[CalledFor])) =>
        LET state == temps[CalledFor]
            term == At(source.basic_blocks, state.block).terminator
        IN IF keep_original \/ state.uses > 1
           THEN source' = source
           ELSE IF ~AddressesTerminator(source.basic_blocks, state)
           THEN Terminators(source'.basic_blocks) = Terminators(source.basic_blocks)
           ELSE IF term.kind = "Call" /\ term.destination # <<>>
           THEN /\ Terminators(source'.basic_blocks) =
                        [Terminators(source.basic_blocks) EXCEPT
                            ![state.block + 1] = Goto(term.destination[1].target)]
                /\ Successors(At(source'.basic_blocks, state.block).terminator)
                        = << term.destination[1].target >>
                /\ Statements(source'.basic_blocks) = Statements(source.basic_blocks)
           ELSE pc' = "abort" /\ source' = source]_vars

\* promote_temp has just moved a call out of the source: the block that
\* ended in the call ends in a goto.
C20_Witness ==
    /\ ~second
    /\ pc = "promote"
    /\ ~keep_original
    /\ ~Last(stack).root /\ ~Last(stack).is_stmt /\ Last(stack).pos = 1
    /\ temps[Last(stack).index] = PromotedOut
    /\ LET state == analysed[Last(stack).index]
       IN /\ At(run_source.basic_blocks, state.block).terminator.kind = "Call"
          /\ At(source.basic_blocks, state.block).terminator =
                Goto(At(run_source.basic_blocks, state.block).terminator
                        .destination[1].target)

=============================================================================
